---- MODULE Spec2Model ----
(***************************************************************************)
(* Model of futurist/periodics.py: the heap-based _Schedule, the           *)
(* scheduling strategies, and PeriodicWorker (coordinator loop _run, the   *)
(* completion handler _on_done, add, start, stop, reset).                  *)
(*                                                                         *)
(* Time is an integer clock `now` (seconds).  Callback indices are the     *)
(* 0-based list indices of the source; sequences are 1-based, so the       *)
(* descriptor of index i is callables[i + 1].                              *)
(***************************************************************************)
EXTENDS Integers, Sequences, FiniteSets, TLC

\* ---------------------------------------------------------------- bounds
MaxTime == 1
MaxCallables == 1
MaxInitial == MaxCallables
MaxSpacing == 1
MaxHeap == 4
MaxDue == 2
MaxScenarioTime == 3
MaxRuns == 2
NumAdders == 2

\* ------------------------------------------------------ program constants
MAX_LOOP_IDLE == 30
\* DEFAULT_JITTER = Fraction(5, 100)
DEFAULT_JITTER_NUM == 5
DEFAULT_JITTER_DEN == 100
\* decorator(cb, metrics, now=None): at most three positional arguments
DecoratorMaxArgs == 3
\* self._schedule_strategy(cb, started_at, finished_at, metrics)
OnDoneStrategyArgs == 4

Spacings == 1..MaxSpacing
Descriptors == [spacing : Spacings, immediately : BOOLEAN]
StrategyNames == {"last_started", "last_started_jitter",
                  "last_finished", "last_finished_jitter"}
Executors == {"sync", "async"}

Max(a, b) == IF a >= b THEN a ELSE b
MinLeft(a, b) == a
Min(a, b) == IF a <= b THEN a ELSE b

\* ------------------------------------------------------------- _Schedule
\* Python tuple comparison of (next_run, index) pairs
TupleLessDueOnly(a, b) == a[1] < b[1]
TupleLess(a, b) == a[1] < b[1] \/ (a[1] = b[1] /\ a[2] < b[2])

\* heapq._siftdown(heap, startpos, pos); positions are 0-based
RECURSIVE _siftdown(_, _, _, _)
_siftdown(heap, startpos, pos, newitem) ==
    IF pos > startpos
    THEN LET parentpos == (pos - 1) \div 2
             parent == heap[parentpos + 1]
         IN  IF TupleLess(newitem, parent)
             THEN _siftdown([heap EXCEPT ![pos + 1] = parent],
                            startpos, parentpos, newitem)
             ELSE [heap EXCEPT ![pos + 1] = newitem]
    ELSE [heap EXCEPT ![pos + 1] = newitem]

\* the while loop of heapq._siftup: bubble the smaller child up to a leaf
RECURSIVE SiftupLoop(_, _, _)
SiftupLoop(heap, pos, endpos) ==
    LET childpos == 2 * pos + 1
        rightpos == childpos + 1
    IN  IF childpos < endpos
        THEN LET c == IF rightpos < endpos
                         /\ ~TupleLess(heap[childpos + 1], heap[rightpos + 1])
                      THEN rightpos ELSE childpos
             IN  SiftupLoop([heap EXCEPT ![pos + 1] = heap[c + 1]], c, endpos)
        ELSE <<heap, pos>>

_siftup(heap, pos) ==
    LET newitem == heap[pos + 1]
        r == SiftupLoop(heap, pos, Len(heap))
    IN  _siftdown([r[1] EXCEPT ![r[2] + 1] = newitem], pos, r[2], newitem)

\* _Schedule.push: heapq.heappush(self._ordering, (next_run, index))
SchedulePush(heap, next_run, index) ==
    _siftdown(Append(heap, <<next_run, index>>), 0, Len(heap),
              <<next_run, index>>)

\* _Schedule.pop: the item heapq.heappop returns
SchedulePopItemLast(heap) == heap[Len(heap)]
SchedulePopItem(heap) == heap[1]

\* _Schedule.pop: the heap heapq.heappop leaves behind
SchedulePopRestKeep(heap) == heap
SchedulePopRest(heap) ==
    LET lastelt == heap[Len(heap)]
        rest == SubSeq(heap, 1, Len(heap) - 1)
    IN  IF rest # <<>> THEN _siftup([rest EXCEPT ![1] = lastelt], 0)
        ELSE rest

\* ------------------------------------------------------------ strategies
Returned(v) == [raised |-> FALSE, value |-> v]
TypeError == [raised |-> TRUE, value |-> 0]

_last_finished_strategy(cb, started_at, finished_at, m) ==
    finished_at + cb.spacing

_last_started_strategy_finished(cb, started_at, finished_at, m) ==
    finished_at + cb.spacing
_last_started_strategy(cb, started_at, finished_at, m) ==
    started_at + cb.spacing

_now_plus_periodicity_now(cb, t) == t
_now_plus_periodicity(cb, t) == cb.spacing + t

\* The callable _add_jitter(DEFAULT_JITTER)(func) is
\* decorator(cb, metrics, now=None); called with nargs positional arguments.
\* With more than three the call itself raises TypeError; with fewer, the
\* body calls func(cb, metrics, now=now) and func has no `now` keyword.
_add_jitter(nargs) ==
    IF nargs > DecoratorMaxArgs THEN TypeError ELSE TypeError

\* BUILT_IN_STRATEGIES[name][0] applied as _on_done applies it
ScheduleStrategy(name, cb, started_at, finished_at, m) ==
    CASE name = "last_started" ->
            Returned(_last_started_strategy(cb, started_at, finished_at, m))
      [] name = "last_finished" ->
            Returned(_last_finished_strategy(cb, started_at, finished_at, m))
      [] name = "last_started_jitter" -> _add_jitter(OnDoneStrategyArgs)
      [] name = "last_finished_jitter" -> _add_jitter(OnDoneStrategyArgs)

\* BUILT_IN_STRATEGIES[name][1]
InitialStrategy(name, cb, t) == _now_plus_periodicity(cb, t)

\* ---------------------------------------------------------------- _build
RECURSIVE BuildLoop(_, _, _, _, _, _)
BuildLoop(name, cbs, n, imm, sched, t) ==
    IF n = 0 THEN [immediates |-> imm, schedule |-> sched]
    ELSE IF cbs[n].immediately
         THEN BuildLoop(name, cbs, n - 1, Append(imm, n - 1), sched, t)
         ELSE BuildLoop(name, cbs, n - 1, imm,
                        SchedulePush(sched, InitialStrategy(name, cbs[n], t),
                                     n - 1), t)

Reverse(seq) == [k \in 1..Len(seq) |-> seq[Len(seq) + 1 - k]]
_buildForward(name, cbs, t) ==
    LET b == BuildLoop(name, cbs, Len(cbs), <<>>, <<>>, t)
    IN  [immediates |-> Reverse(b.immediates), schedule |-> b.schedule]
_build(name, cbs, t) == BuildLoop(name, cbs, Len(cbs), <<>>, <<>>, t)

_INITIAL_METRICS ==
    [runs |-> 0, elapsed |-> 0, elapsed_waiting |-> 0,
     failures |-> 0, successes |-> 0]

\* ----------------------------------------------------------------- state
VARIABLES
    now,          \* utils.now()
    strategy,     \* schedule_strategy name given to __init__
    executor,     \* kind of executor the executor_factory builds
    callables,    \* self._callables
    metrics,      \* self._metrics
    immediates,   \* self._immediates (a list, popped from its end)
    schedule,     \* self._schedule._ordering (a heap of <<next_run, index>>)
    tombstone,    \* self._tombstone
    dead,         \* self._dead
    lock,         \* holder of self._waiter's lock: "free", "loop" or "add"
    pc,           \* position of the thread running start()/_run()
    notified,     \* the waiting loop has been notified
    deadline,     \* time at which the loop's current wait times out
    jobs,         \* submitted invocations whose _on_done has not finished
    submits,      \* per index: executor.submit calls since construction/reset
    adders,       \* per thread calling add(): its position, arguments, index
    ev            \* what the last step did (operation, values, lock held)

vars == <<now, strategy, executor, adders, callables, metrics, immediates, schedule,
          tombstone, dead, lock, pc, notified, deadline, jobs, submits,
          ev>>

Indices == 0..(Len(callables) - 1)
\* the threads that call add(), each once
AdderIds == 1..NumAdders
Waiting == pc \in {"wait_empty", "wait_due"}
\* Condition.notify_all(): wakes the loop when it is inside a wait
notify_all == IF Waiting THEN TRUE ELSE notified

\* shared state a step of the loop thread touches without holding the lock
Unlocked(names) == IF lock = "loop" THEN {} ELSE names

\* PeriodicWorker.__init__
Init ==
    /\ now = 0
    /\ strategy \in StrategyNames
    /\ executor \in Executors
    /\ callables \in UNION {[1..n -> Descriptors] : n \in 0..MaxInitial}
    /\ metrics = [i \in 1..Len(callables) |-> _INITIAL_METRICS]
    /\ immediates = _build(strategy, callables, now).immediates
    /\ schedule = _build(strategy, callables, now).schedule
    /\ tombstone = FALSE
    /\ dead = FALSE
    /\ lock = "free"
    /\ pc = "idle"
    /\ notified = FALSE
    /\ deadline = 0
    /\ jobs = {}
    /\ submits = [i \in 1..Len(callables) |-> 0]
    /\ adders = [a \in AdderIds |-> [pc |-> "idle"]]
    /\ ev = [op |-> "init", actor |-> "init", unlocked |-> {}]

\* utils.now() advancing
Tick ==
    /\ now < MaxTime
    /\ now' = now + 1
    /\ UNCHANGED <<strategy, executor, adders, callables, metrics, immediates,
                   schedule, tombstone, dead, lock, pc, notified, deadline,
                   jobs, submits, ev>>

\* -------------------------------------------------------- start / _run
\* start(allow_empty=False) on an empty worker: raises RuntimeError
StartError ==
    /\ pc = "idle"
    /\ Len(callables) = 0
    /\ ev' = [op |-> "start_error", actor |-> "start", unlocked |-> {}]
    /\ UNCHANGED <<now, strategy, executor, adders, callables, metrics, immediates,
                   schedule, tombstone, dead, lock, pc, notified, deadline,
                   jobs, submits>>

\* start(): executor built, self._dead.clear(), _run entered
Start ==
    /\ pc = "idle"
    /\ \E allow_empty \in BOOLEAN :
          /\ ~(Len(callables) = 0 /\ ~allow_empty)
          /\ ev' = [op |-> "start", actor |-> "start",
                    allow_empty |-> allow_empty, unlocked |-> {"dead"}]
    /\ dead' = FALSE
    /\ pc' = "while"
    /\ UNCHANGED <<now, strategy, executor, adders, callables, metrics, immediates,
                   schedule, tombstone, lock, notified, deadline, jobs,
                   submits>>

LoopWhileAlways ==
    /\ pc = "while"
    /\ pc' = "if_imm"
    /\ ev' = [op |-> "while", actor |-> "loop",
              unlocked |-> Unlocked({"tombstone"})]
    /\ UNCHANGED <<now, strategy, executor, adders, callables, metrics, immediates,
                   schedule, tombstone, dead, lock, notified, deadline, jobs,
                   submits>>

\* line 402: while not self._tombstone.is_set()
LoopWhile ==
    /\ pc = "while"
    /\ pc' = IF tombstone THEN "finally" ELSE "if_imm"
    /\ ev' = [op |-> "while", actor |-> "loop",
              unlocked |-> Unlocked({"tombstone"})]
    /\ UNCHANGED <<now, strategy, executor, adders, callables, metrics, immediates,
                   schedule, tombstone, dead, lock, notified, deadline, jobs,
                   submits>>

\* self._immediates.pop(): the list it leaves behind
ImmediatesPopKeep(imm) == imm
ImmediatesPopFirst(imm) == Tail(imm)
ImmediatesPop(imm) == SubSeq(imm, 1, Len(imm) - 1)

\* executor.submit(_run_callback, cb, ...) + fut.add_done_callback(_on_done)
NewJob(kind, index, submitted_at) ==
    [index |-> index, kind |-> kind, n |-> submits[index + 1] + 1,
     submitted_at |-> submitted_at]

\* lines 403-420: the immediates list is not empty
LoopSubmitImmediate ==
    /\ pc = "if_imm"
    /\ immediates # <<>>
    /\ LET index == immediates[Len(immediates)]
       IN  /\ immediates' = ImmediatesPop(immediates)
           /\ jobs' = jobs \cup {NewJob("immediate", index, now)}
           /\ submits' = [submits EXCEPT ![index + 1] = @ + 1]
           /\ ev' = [op |-> "submit", actor |-> "loop", index |-> index,
                     unlocked |-> Unlocked({"immediates", "callables"})]
    /\ pc' = IF executor = "sync" THEN "inline" ELSE "while"
    /\ UNCHANGED <<now, strategy, executor, adders, callables, metrics, schedule,
                   tombstone, dead, lock, notified, deadline>>

\* line 403 false: go on to line 426
LoopNoImmediates ==
    /\ pc = "if_imm"
    /\ immediates = <<>>
    /\ pc' = "with"
    /\ ev' = [op |-> "no_immediates", actor |-> "loop",
              unlocked |-> Unlocked({"immediates"})]
    /\ UNCHANGED <<now, strategy, executor, adders, callables, metrics, immediates,
                   schedule, tombstone, dead, lock, notified, deadline, jobs,
                   submits>>

\* line 426: with self._waiter
LoopAcquire ==
    /\ pc = "with"
    /\ lock = "free"
    /\ lock' = "loop"
    /\ pc' = "inner"
    /\ ev' = [op |-> "acquire", actor |-> "loop", unlocked |-> {}]
    /\ UNCHANGED <<now, strategy, executor, adders, callables, metrics, immediates,
                   schedule, tombstone, dead, notified, deadline, jobs,
                   submits>>

\* lines 427-429: self._waiter.wait(self.MAX_LOOP_IDLE)
LoopWaitEmpty ==
    /\ pc = "inner"
    /\ schedule = <<>> /\ ~tombstone
    /\ pc' = "wait_empty"
    /\ lock' = "free"
    /\ notified' = FALSE
    /\ deadline' = now + MAX_LOOP_IDLE
    /\ ev' = [op |-> "wait", actor |-> "loop", timeout |-> MAX_LOOP_IDLE,
              unlocked |-> Unlocked({"schedule", "tombstone"})]
    /\ UNCHANGED <<now, strategy, executor, adders, callables, metrics, immediates,
                   schedule, tombstone, dead, jobs, submits>>

\* lines 430-431: if self._tombstone.is_set(): break
LoopBreak ==
    /\ pc = "inner"
    /\ tombstone
    /\ pc' = "finally"
    /\ lock' = "free"
    /\ ev' = [op |-> "break", actor |-> "loop",
              unlocked |-> Unlocked({"schedule", "tombstone"})]
    /\ UNCHANGED <<now, strategy, executor, adders, callables, metrics, immediates,
                   schedule, tombstone, dead, notified, deadline, jobs,
                   submits>>

\* lines 432-446: the popped entry is due
LoopSubmitPeriodic ==
    /\ pc = "inner"
    /\ schedule # <<>> /\ ~tombstone
    /\ LET entry == SchedulePopItem(schedule)
           next_run == entry[1]
           index == entry[2]
           when_next == next_run - now
       IN  /\ when_next <= 0
           /\ schedule' = SchedulePopRest(schedule)
           /\ jobs' = jobs \cup {NewJob("periodic", index, now)}
           /\ submits' = [submits EXCEPT ![index + 1] = @ + 1]
           /\ ev' = [op |-> "submit", actor |-> "loop", index |-> index,
                     unlocked |-> Unlocked({"schedule", "tombstone",
                                            "callables"})]
    /\ pc' = IF executor = "sync" THEN "inline" ELSE "while"
    /\ lock' = IF executor = "sync" THEN "loop" ELSE "free"
    /\ UNCHANGED <<now, strategy, executor, adders, callables, metrics, immediates,
                   tombstone, dead, notified, deadline>>

\* lines 432-435, 447-451: the popped entry is not due yet
LoopWaitDue ==
    /\ pc = "inner"
    /\ schedule # <<>> /\ ~tombstone
    /\ LET entry == SchedulePopItem(schedule)
           next_run == entry[1]
           index == entry[2]
           when_next == next_run - now
       IN  /\ when_next > 0
           /\ schedule' = SchedulePush(SchedulePopRest(schedule),
                                       next_run, index)
           /\ deadline' = now + Min(when_next, MAX_LOOP_IDLE)
           /\ ev' = [op |-> "wait", actor |-> "loop",
                     timeout |-> Min(when_next, MAX_LOOP_IDLE),
                     unlocked |-> Unlocked({"schedule", "tombstone"})]
    /\ pc' = "wait_due"
    /\ lock' = "free"
    /\ notified' = FALSE
    /\ UNCHANGED <<now, strategy, executor, adders, callables, metrics, immediates,
                   tombstone, dead, jobs, submits>>

\* wait() at line 429 returns (notified or timed out) holding the lock again
LoopWakeEmpty ==
    /\ pc = "wait_empty"
    /\ notified \/ now >= deadline
    /\ lock = "free"
    /\ lock' = "loop"
    /\ pc' = "inner"
    /\ notified' = FALSE
    /\ deadline' = 0
    /\ ev' = [op |-> "wake", actor |-> "loop", unlocked |-> {}]
    /\ UNCHANGED <<now, strategy, executor, adders, callables, metrics, immediates,
                   schedule, tombstone, dead, jobs, submits>>

\* wait() at line 451 returns; the with block ends and the lock is released
LoopWakeDue ==
    /\ pc = "wait_due"
    /\ notified \/ now >= deadline
    /\ lock = "free"
    /\ pc' = "while"
    /\ notified' = FALSE
    /\ deadline' = 0
    /\ ev' = [op |-> "wake", actor |-> "loop", unlocked |-> {}]
    /\ UNCHANGED <<now, strategy, executor, adders, callables, metrics, immediates,
                   schedule, tombstone, dead, lock, jobs, submits>>

LoopFinallyNoSet ==
    /\ pc = "finally"
    /\ jobs = {}
    /\ pc' = "idle"
    /\ ev' = [op |-> "finally", actor |-> "start", unlocked |-> {"dead"}]
    /\ UNCHANGED <<now, strategy, executor, adders, callables, metrics, immediates,
                   schedule, tombstone, dead, lock, notified, deadline, jobs,
                   submits>>

\* start()'s finally: executor.shutdown() (waits for the submitted work),
\* self._dead.set()
LoopFinally ==
    /\ pc = "finally"
    /\ jobs = {}
    /\ dead' = TRUE
    /\ pc' = "idle"
    /\ ev' = [op |-> "finally", actor |-> "start", unlocked |-> {"dead"}]
    /\ UNCHANGED <<now, strategy, executor, adders, callables, metrics, immediates,
                   schedule, tombstone, lock, notified, deadline, jobs,
                   submits>>

\* ------------------------------------------- _run_callback / _on_done
\* the thread an invocation and its completion handler run on holds the lock
HoldsLock == executor = "sync" /\ lock = "loop"

UpdatedMetricsRunsOnly(m, submitted_at, started_at, finished_at, failed) ==
    [m EXCEPT !.runs = m.runs + 1]

\* lines 381-394 of _on_done
UpdatedMetrics(m, submitted_at, started_at, finished_at, failed) ==
    [runs |-> m.runs + 1,
     failures |-> IF failed THEN m.failures + 1 ELSE m.failures,
     successes |-> IF failed THEN m.successes ELSE m.successes + 1,
     elapsed |-> m.elapsed + Max(0, finished_at - started_at),
     elapsed_waiting |-> m.elapsed_waiting
                           + Max(0, started_at - submitted_at)]

OnDonePushNoNotify(j, next_run) ==
    /\ schedule' = SchedulePush(schedule, next_run, j.index)
    /\ notified' = notified

\* lines 398-400 of _on_done: with self._waiter: push, notify_all
OnDonePush(j, next_run) ==
    /\ schedule' = SchedulePush(schedule, next_run, j.index)
    /\ notified' = notify_all

\* One invocation from its start to the end of its completion handler:
\* _run_callback (started_at = utils.now(), the body, which raises or not,
\* finished_at = utils.now()) and _on_done.  The timestamps were read at
\* submitted_at <= started_at <= finished_at <= now; nothing else reads them
\* or the metrics of a running invocation, so the step is taken when the
\* handler reaches line 398 and can take the lock.  A strategy that raises
\* ends the handler before line 398; when the handler runs on the loop's
\* thread (add_done_callback on a finished future) the exception is either
\* logged by the future or propagates into _run.
RunAndDone(j, started_at, finished_at, failed, propagate) ==
    /\ lock = "free" \/ HoldsLock
    /\ LET cb == callables[j.index + 1]
           m == UpdatedMetrics(metrics[j.index + 1], j.submitted_at,
                               started_at, finished_at, failed)
           r == ScheduleStrategy(strategy, cb, started_at, finished_at, m)
       IN  /\ metrics' = [metrics EXCEPT ![j.index + 1] = m]
           /\ jobs' = jobs \ {j}
           /\ ev' = [op |-> IF r.raised THEN "raised" ELSE "done",
                     actor |-> "handler", index |-> j.index,
                     submitted_at |-> j.submitted_at,
                     started_at |-> started_at,
                     finished_at |-> finished_at, failed |-> failed,
                     unlocked |-> IF HoldsLock THEN {} ELSE {"metrics"}]
           /\ IF r.raised
              THEN UNCHANGED <<schedule, notified>>
              ELSE OnDonePush(j, r.value)
           /\ IF executor = "sync"
              THEN /\ pc' = IF r.raised /\ propagate
                            THEN "finally" ELSE "while"
                   /\ lock' = "free"
              ELSE UNCHANGED <<pc, lock>>
           /\ propagate => (r.raised /\ executor = "sync")
    /\ UNCHANGED <<now, strategy, executor, adders, callables, immediates,
                   tombstone, dead, deadline, submits>>

\* the invocation of job j with any timestamps and outcome
_on_done(j) ==
    \E started_at \in j.submitted_at..now, failed \in BOOLEAN,
       propagate \in BOOLEAN :
        \E finished_at \in started_at..now :
            RunAndDone(j, started_at, finished_at, failed, propagate)

\* ------------------------------------------------- add / stop / reset
\* add(cb): validation passed, now = utils.now() read at time t (lines
\* 480-486, before the lock is taken), then lines 487-497 under the lock
add(cb, t) ==
    /\ Len(callables) < MaxCallables
    /\ lock = "free"
    /\ LET index == Len(callables)
       IN  /\ callables' = Append(callables, cb)
           /\ metrics' = Append(metrics, _INITIAL_METRICS)
           /\ submits' = Append(submits, 0)
           /\ IF cb.immediately
              THEN /\ immediates' = Append(immediates, index)
                   /\ UNCHANGED schedule
              ELSE /\ schedule' = SchedulePush(schedule,
                                     InitialStrategy(strategy, cb, t), index)
                   /\ UNCHANGED immediates
           /\ ev' = [op |-> "add", actor |-> "add", index |-> index,
                     unlocked |-> {}]
    /\ notified' = notify_all
    /\ UNCHANGED <<now, strategy, executor, adders, tombstone, dead, lock, pc,
                   deadline, jobs>>

StopNoNotify == notified
StopNotify == notify_all

\* stop()
Stop ==
    /\ lock = "free"
    /\ tombstone' = TRUE
    /\ notified' = StopNotify
    /\ ev' = [op |-> "stop", actor |-> "stop", unlocked |-> {}]
    /\ UNCHANGED <<now, strategy, executor, adders, callables, metrics, immediates,
                   schedule, dead, lock, pc, deadline, jobs, submits>>

\* lines 533-535 of reset(): every counter of every record set to 0
ResetMetricsKeep(ms) == ms
ResetMetrics(ms) ==
    [i \in 1..Len(ms) |-> [k \in DOMAIN ms[i] |-> 0]]

\* reset(); not called while start() is running
Reset ==
    /\ pc = "idle"
    /\ tombstone' = FALSE
    /\ dead' = FALSE
    /\ metrics' = ResetMetrics(metrics)
    /\ immediates' = _build(strategy, callables, now).immediates
    /\ schedule' = _build(strategy, callables, now).schedule
    /\ submits' = [i \in 1..Len(submits) |-> 0]
    /\ ev' = [op |-> "reset", actor |-> "reset",
              after_run |-> dead /\ tombstone
                            /\ \E i \in 1..Len(metrics) : metrics[i].runs > 0,
              unlocked |-> {"tombstone", "dead", "metrics", "immediates",
                            "schedule", "callables"}]
    /\ UNCHANGED <<now, strategy, executor, adders, callables, lock, pc, notified,
                   deadline, jobs>>

\* ------------------------------------------------------- specification
Loop ==
    \/ LoopWhile \/ LoopSubmitImmediate \/ LoopNoImmediates \/ LoopAcquire
    \/ LoopWaitEmpty \/ LoopBreak \/ LoopSubmitPeriodic \/ LoopWaitDue
    \/ LoopWakeEmpty \/ LoopWakeDue \/ LoopFinally

Next ==
    \/ Tick
    \/ StartError
    \/ Start
    \/ LoopWhile
    \/ LoopSubmitImmediate
    \/ LoopNoImmediates
    \/ LoopAcquire
    \/ LoopWaitEmpty
    \/ LoopBreak
    \/ LoopSubmitPeriodic
    \/ LoopWaitDue
    \/ LoopWakeEmpty
    \/ LoopWakeDue
    \/ LoopFinally
    \/ \E j \in jobs : _on_done(j)
    \/ \E cb \in Descriptors, t \in 0..now : add(cb, t)
    \/ Stop
    \/ Reset

Spec == Init /\ [][Next]_vars

\* Fair scheduling: the thread running start() keeps running, every
\* submitted invocation finishes and its handler runs, the clock advances.
Fairness ==
    /\ WF_vars(Loop)
    /\ \A i \in 0..(MaxCallables - 1) :
          WF_vars(\E j \in jobs : j.index = i /\ _on_done(j))
    /\ WF_vars(Tick)

\* A worker constructed from one callback, to which none is added later
\* (its registry is never empty, so start() never refuses)
InitFair == Init /\ \E cb \in Descriptors : callables = <<cb>>

NextFair ==
    \/ Tick
    \/ Start
    \/ LoopWhile
    \/ LoopSubmitImmediate
    \/ LoopNoImmediates
    \/ LoopAcquire
    \/ LoopWaitEmpty
    \/ LoopBreak
    \/ LoopSubmitPeriodic
    \/ LoopWaitDue
    \/ LoopWakeEmpty
    \/ LoopWakeDue
    \/ LoopFinally
    \/ \E j \in jobs : _on_done(j)
    \/ Stop
    \/ Reset

\* That worker under fair scheduling
FairSpec == InitFair /\ [][NextFair]_vars /\ Fairness

\* The clock stops at MaxTime, which stands for every later time: a wait
\* whose deadline lies beyond MaxTime times out there (lines 429 and 451,
\* wait(timeout) returning without a notification).
LoopTimeoutBeyond ==
    /\ Waiting
    /\ now = MaxTime /\ deadline > MaxTime
    /\ lock = "free"
    /\ pc' = IF pc = "wait_empty" THEN "inner" ELSE "while"
    /\ lock' = IF pc = "wait_empty" THEN "loop" ELSE "free"
    /\ notified' = FALSE
    /\ deadline' = 0
    /\ ev' = [op |-> "timeout", actor |-> "loop", unlocked |-> {}]
    /\ UNCHANGED <<now, strategy, executor, adders, callables, metrics, immediates,
                   schedule, tombstone, dead, jobs, submits>>

NextTimeout ==
    \/ Tick
    \/ StartError
    \/ Start
    \/ LoopWhile
    \/ LoopSubmitImmediate
    \/ LoopNoImmediates
    \/ LoopAcquire
    \/ LoopWaitEmpty
    \/ LoopBreak
    \/ LoopSubmitPeriodic
    \/ LoopWaitDue
    \/ LoopWakeEmpty
    \/ LoopWakeDue
    \/ LoopTimeoutBeyond
    \/ LoopFinally
    \/ \E j \in jobs : _on_done(j)
    \/ \E cb \in Descriptors, t \in 0..now : add(cb, t)
    \/ Stop
    \/ Reset

\* Fair scheduling in which every wait also times out
FairTimeoutSpec ==
    Init /\ [][NextTimeout]_vars /\ Fairness /\ WF_vars(LoopTimeoutBeyond)

\* ----------------------------------------------- _Schedule on its own
\* Any sequence of push and pop calls on one _Schedule object.
InitSched ==
    /\ now = 0
    /\ strategy = "last_started"
    /\ executor = "sync"
    /\ callables = <<>>
    /\ metrics = <<>>
    /\ immediates = <<>>
    /\ schedule = <<>>
    /\ tombstone = FALSE
    /\ dead = FALSE
    /\ lock = "free"
    /\ pc = "idle"
    /\ notified = FALSE
    /\ deadline = 0
    /\ jobs = {}
    /\ submits = <<>>
    /\ adders = [a \in AdderIds |-> [pc |-> "idle"]]
    /\ ev = [op |-> "init", actor |-> "init", unlocked |-> {}]

SchedPush(next_run, index) ==
    /\ Len(schedule) < MaxHeap
    /\ schedule' = SchedulePush(schedule, next_run, index)
    /\ ev' = [op |-> "sched_push", actor |-> "schedule", unlocked |-> {}]
    /\ UNCHANGED <<now, strategy, executor, adders, callables, metrics, immediates,
                   tombstone, dead, lock, pc, notified, deadline, jobs,
                   submits>>

SchedPop ==
    /\ schedule # <<>>
    /\ schedule' = SchedulePopRest(schedule)
    /\ ev' = [op |-> "sched_pop", actor |-> "schedule",
              item |-> SchedulePopItem(schedule), before |-> schedule,
              unlocked |-> {}]
    /\ UNCHANGED <<now, strategy, executor, adders, callables, metrics, immediates,
                   tombstone, dead, lock, pc, notified, deadline, jobs,
                   submits>>

NextSched ==
    \/ \E next_run \in 0..MaxDue, index \in 0..MaxCallables :
          SchedPush(next_run, index)
    \/ SchedPop

SchedSpec == InitSched /\ [][NextSched]_vars

\* ------------------------------------------------------------ properties
InSchedule(i) == Cardinality({k \in 1..Len(schedule) : schedule[k][2] = i})
InImmediates(i) == Cardinality({k \in 1..Len(immediates) : immediates[k] = i})
Outstanding(i) == Cardinality({j \in jobs : j.index = i})
Running == pc \notin {"idle", "finally"}
Jittered == strategy \in {"last_started_jitter", "last_finished_jitter"}
Count(seq, e) == Cardinality({k \in 1..Len(seq) : seq[k] = e})
LexLE(a, b) == a[1] < b[1] \/ (a[1] = b[1] /\ a[2] <= b[2])

\* C1: a callback index never has two invocations outstanding (submitted,
\* completion handler not yet run)
C1_AtMostOneOutstanding == \A i \in Indices : Outstanding(i) <= 1

\* the second invocation of a callback is outstanding on a pool executor
C1_Witness == \E j \in jobs : j.n >= 2 /\ executor = "async"

\* C2 (as claimed): a registered callback is always in exactly one of the
\* ImmediateSet, the Schedule, or in flight, for all four strategies
C2_ExactlyOnePlace ==
    \A i \in Indices : InImmediates(i) + InSchedule(i) + Outstanding(i) = 1

\* C3 (as claimed): while the loop runs and stop is not requested, every
\* registered callback is eventually submitted (or lies beyond the clock's
\* horizon MaxTime)
C3_BeyondHorizon(i) ==
    \E k \in 1..Len(schedule) : schedule[k][2] = i /\ schedule[k][1] > MaxTime

C3_EventuallyDispatched ==
    \A i \in 0..(MaxCallables - 1) :
        (i \in Indices /\ Running /\ ~tombstone)
            ~> (\/ (i \in Indices /\ submits[i + 1] > 0)
                \/ tombstone
                \/ ~Running
                \/ C3_BeyondHorizon(i))

\* C4: stop() during a running start() is followed by the loop's exit and
\* the loop-exited flag being set
C4_StopEndsLoop == (tombstone /\ pc # "idle") ~> dead

\* stop() arrived while the loop was blocked on an empty Schedule
C4_Witness == pc = "wait_empty" /\ tombstone /\ notified

\* C5 (as claimed): once the stop flag is set no callback is submitted
C5_NoSubmitAfterStop == [][tombstone => jobs' \subseteq jobs]_vars

\* C6: an index occurs at most once in the Schedule, and an index that is
\* dispatched has no Schedule entry and no ImmediateSet element
C6_OneEntry ==
    \A i \in Indices :
        /\ InSchedule(i) <= 1
        /\ Outstanding(i) > 0 => (InSchedule(i) = 0 /\ InImmediates(i) = 0)

\* a callback popped from the Schedule is in flight and has no entry left
C6_Witness ==
    \E j \in jobs :
        /\ j.kind = "periodic"
        /\ InSchedule(j.index) = 0
        /\ InImmediates(j.index) = 0

\* C7 (as claimed): every access to the shared state by the loop, a
\* completion handler, add, stop or reset is made holding the lock
C7_AllAccessLocked ==
    ev.actor \in {"loop", "handler", "add", "stop", "reset"}
        => ev.unlocked = {}

\* C8: pop returns the (due_time, index)-minimal entry and removes exactly it
C8_PopMinimal ==
    ev.op = "sched_pop" =>
        /\ \A k \in 1..Len(ev.before) : LexLE(ev.item, ev.before[k])
        /\ Len(schedule) = Len(ev.before) - 1
        /\ \A k \in 1..Len(ev.before) :
              Count(schedule, ev.before[k])
                = Count(ev.before, ev.before[k])
                    - (IF ev.before[k] = ev.item THEN 1 ELSE 0)

\* a pop chose between entries of equal due time, and the lower index was
\* pushed (stored) behind the higher one
C8_Witness ==
    /\ ev.op = "sched_pop"
    /\ Len(ev.before) >= 3
    /\ \E k \in 1..Len(ev.before) :
          ev.before[k][1] = ev.item[1] /\ ev.before[k][2] > ev.item[2]

\* C9: the entry the completion handler pushes is due at started_at + spacing
\* (last_started) resp. finished_at + spacing (last_finished)
C9_ExactDue ==
    (ev.op \in {"done", "raised"}
        /\ strategy \in {"last_started", "last_finished"}) =>
        LET base == IF strategy = "last_started" THEN ev.started_at
                    ELSE ev.finished_at
        IN  \E k \in 1..Len(schedule) :
               schedule[k] = <<base + callables[ev.index + 1].spacing,
                               ev.index>>

\* a failed invocation that waited in the executor and took time has been
\* rescheduled by last_started
C9_Witness ==
    /\ ev.op = "done"
    /\ strategy = "last_started"
    /\ ev.failed
    /\ ev.finished_at > ev.started_at

\* C10 (as claimed): with a jittered strategy the handler pushes an entry due
\* in [T + spacing, T + spacing * (1 + f)), f = DEFAULT_JITTER
C10_JitterInterval ==
    (ev.op \in {"done", "raised"} /\ Jittered) =>
        LET base == IF strategy = "last_started_jitter" THEN ev.started_at
                    ELSE ev.finished_at
            spacing == callables[ev.index + 1].spacing
        IN  \E k \in 1..Len(schedule) :
               /\ schedule[k][2] = ev.index
               /\ schedule[k][1] >= base + spacing
               /\ schedule[k][1] * DEFAULT_JITTER_DEN
                    < (base + spacing) * DEFAULT_JITTER_DEN
                        + spacing * DEFAULT_JITTER_NUM

\* a step of the completion handler: the only step that removes a job
OnDoneStep == jobs' # jobs /\ jobs' \subseteq jobs

\* C11 (as claimed): the completion of an invocation whose body raised adds
\* one to the failure and run counts, leaves the success count, pushes the
\* entry a succeeding invocation with the same timestamps would push, and
\* does not end the loop, for every strategy
C11_FailingStaysInRotation ==
    [][(OnDoneStep /\ ev'.failed) =>
        LET i == ev'.index
            m == metrics[i + 1]
            ok == UpdatedMetrics(m, ev'.submitted_at, ev'.started_at,
                                 ev'.finished_at, FALSE)
            r == ScheduleStrategy(strategy, callables[i + 1],
                                  ev'.started_at, ev'.finished_at, ok)
        IN  /\ metrics'[i + 1].failures = m.failures + 1
            /\ metrics'[i + 1].runs = m.runs + 1
            /\ metrics'[i + 1].successes = m.successes
            /\ ~r.raised
            /\ schedule' = SchedulePush(schedule, r.value, i)
            /\ pc' = "finally" => pc = "finally"]_vars


\* a step of reset(): the only step that leaves ev a reset record, apart
\* from the clock's
ResetStep == ev'.op = "reset" /\ now' = now

ImmediateIndices == {i \in Indices : callables[i + 1].immediately}

C14_StartFlags ==
    [][/\ ev'.op = "start_error" =>
             /\ Len(callables) = 0
             /\ UNCHANGED <<tombstone, dead, schedule, immediates, pc, jobs>>
       /\ (pc = "idle" /\ pc' # "idle") =>
             /\ ~dead'
             /\ Len(callables) = 0 => ev'.allow_empty
       /\ (pc # "idle" /\ pc' = "idle") => dead']_vars

\* start() has returned with the loop-exited flag set although stop was never
\* requested: the loop ended by an exception
C14_Witness == ev.op = "finally" /\ dead /\ ~tombstone


\* --------------------------------------------- registration of any unit
_REQUIRED_ATTRS ==
    <<"_is_periodic", "_periodic_spacing", "_periodic_run_immediately">>
RequiredAttrs == {_REQUIRED_ATTRS[k] : k \in 1..Len(_REQUIRED_ATTRS)}

\* An object handed to add(): whether it is callable, which of the required
\* attributes it has, and the values of _periodic_spacing (0 stands for any
\* value <= 0) and _periodic_run_immediately where it has them.
Units ==
    [callable : BOOLEAN, attrs : SUBSET RequiredAttrs,
     spacing : 0..MaxSpacing, immediately : BOOLEAN]

\* _check_attrs(obj): the required attributes not found, in order
_check_attrs(obj) ==
    SelectSeq(_REQUIRED_ATTRS, LAMBDA a : a \notin obj.attrs)

ValueError == [raised |-> TRUE, value |-> 0]

\* periodic(spacing, run_immediately)(f) for a function f
periodic(spacing, run_immediately) ==
    IF spacing <= 0 THEN ValueError
    ELSE Returned([callable |-> TRUE, attrs |-> RequiredAttrs,
                   spacing |-> spacing, immediately |-> run_immediately])

\* lines 480-485 of add(): the unit passes both checks
AddAccepts(u) == u.callable /\ _check_attrs(u) = <<>>

\* add(u) raising ValueError at line 481 or 484
AddRejected(u) ==
    /\ ~AddAccepts(u)
    /\ ev' = [op |-> "add_error", actor |-> "add", callable |-> u.callable,
              missing |-> RequiredAttrs \ u.attrs,
              named |-> IF ~u.callable THEN <<>> ELSE _check_attrs(u),
              unlocked |-> {}]
    /\ UNCHANGED <<now, strategy, executor, adders, callables, metrics, immediates,
                   schedule, tombstone, dead, lock, pc, notified, deadline,
                   jobs, submits>>

\* add(u) passing lines 480-485
AddAccepted(u, t) ==
    /\ AddAccepts(u)
    /\ add([spacing |-> u.spacing, immediately |-> u.immediately], t)

\* a call of periodic(spacing, run_immediately)
Tag(spacing, run_immediately) ==
    /\ ev' = [op |-> "periodic", actor |-> "periodic", spacing |-> spacing,
              raised |-> periodic(spacing, run_immediately).raised,
              unlocked |-> {}]
    /\ UNCHANGED <<now, strategy, executor, adders, callables, metrics, immediates,
                   schedule, tombstone, dead, lock, pc, notified, deadline,
                   jobs, submits>>

\* PeriodicWorker([]) with the default strategy and executor
InitAdd ==
    Init /\ callables = <<>> /\ strategy = "last_started" /\ executor = "sync"

\* a callback of spacing 0 is due again at once: its runs are capped
RunsBelowCap == \A k \in 1..Len(submits) : submits[k] < MaxRuns

\* the worker with add() given any unit
NextAdd ==
    \/ Tick
    \/ StartError
    \/ Start
    \/ LoopWhile
    \/ RunsBelowCap /\ LoopSubmitImmediate
    \/ LoopNoImmediates
    \/ LoopAcquire
    \/ LoopWaitEmpty
    \/ LoopBreak
    \/ RunsBelowCap /\ LoopSubmitPeriodic
    \/ LoopWaitDue
    \/ LoopWakeEmpty
    \/ LoopWakeDue
    \/ LoopFinally
    \/ \E j \in jobs : _on_done(j)
    \/ \E u \in Units, t \in 0..now : AddAccepted(u, t)
    \/ \E u \in Units : AddRejected(u)
    \/ \E spacing \in 0..MaxSpacing, run_immediately \in BOOLEAN :
          Tag(spacing, run_immediately)
    \/ Stop
    \/ Reset

AddSpec == InitAdd /\ [][NextAdd]_vars

\* C15 (as claimed): a rejected add() names exactly the missing attributes of
\* a callable unit, changes nothing and wakes no waiter; periodic() refuses
\* every spacing <= 0; and no registered callback has spacing <= 0
C15_RegistrationChecked ==
    [][/\ ev'.op = "add_error" =>
             /\ ev'.callable =>
                   {ev'.named[k] : k \in 1..Len(ev'.named)} = ev'.missing
             /\ UNCHANGED <<callables, metrics, schedule, immediates,
                            notified>>
       /\ ev'.op = "periodic" => (ev'.raised <=> ev'.spacing <= 0)
       /\ \A k \in 1..Len(callables') : callables'[k].spacing > 0]_vars


\* ------------------------------------------- a worker of two callbacks
\* PeriodicWorker([(a, None, None), (b, None, None)], ...) for any two
\* callbacks, any strategy and executor; nothing is added later
InitPair ==
    /\ now = 0
    /\ strategy \in StrategyNames
    /\ executor \in Executors
    /\ callables \in {<<a, b>> : a \in Descriptors, b \in Descriptors}
    /\ metrics = [i \in 1..Len(callables) |-> _INITIAL_METRICS]
    /\ immediates = _build(strategy, callables, now).immediates
    /\ schedule = _build(strategy, callables, now).schedule
    /\ tombstone = FALSE
    /\ dead = FALSE
    /\ lock = "free"
    /\ pc = "idle"
    /\ notified = FALSE
    /\ deadline = 0
    /\ jobs = {}
    /\ submits = [i \in 1..Len(callables) |-> 0]
    /\ adders = [a \in AdderIds |-> [pc |-> "idle"]]
    /\ ev = [op |-> "init", actor |-> "init", unlocked |-> {}]

PairSpec == InitPair /\ [][NextFair]_vars


\* a step of the loop at line 403
ImmediatesTestStep == pc = "if_imm" /\ pc' # pc

\* C16: an iteration that finds the ImmediateSet non-empty removes its last
\* (most recently appended) index and submits it as an immediate, leaving the
\* Schedule as it is; the Schedule is approached (line 426) only from an
\* iteration that found the ImmediateSet empty
C16_ImmediateFirst ==
    [][/\ (ImmediatesTestStep /\ immediates # <<>>) =>
             /\ immediates' = SubSeq(immediates, 1, Len(immediates) - 1)
             /\ \E j \in jobs' \ jobs :
                   /\ j.index = immediates[Len(immediates)]
                   /\ j.kind = "immediate"
                   /\ jobs' = jobs \cup {j}
             /\ schedule' = schedule
             /\ pc' # "with"
       /\ (pc # "with" /\ pc' = "with") =>
             (pc = "if_imm" /\ immediates = <<>>)
       /\ (pc # "inner" /\ pc' = "inner") => pc \in {"with", "wait_empty"}]_vars

\* an immediate callback has just been submitted, stop not requested,
\* although the Schedule held an entry that was already due
C16_Witness ==
    /\ ev.op = "submit"
    /\ \E j \in jobs :
          /\ j.kind = "immediate" /\ j.index = ev.index
          /\ schedule # <<>> /\ schedule[1][1] <= j.submitted_at
    /\ ~tombstone


\* C17: with no add(), an immediate submission of index i finds i not yet
\* submitted since construction or reset(), every lower run-immediately
\* index submitted exactly once and every higher one still queued; and a
\* Schedule entry is submitted only after all of them
C17_ImmediatesAscending ==
    [][\A j \in jobs' \ jobs :
        /\ j.kind = "immediate" =>
              /\ j.index \in ImmediateIndices
              /\ submits[j.index + 1] = 0
              /\ \A k \in ImmediateIndices :
                    /\ k < j.index => submits[k + 1] = 1
                    /\ k > j.index =>
                          (submits[k + 1] = 0 /\ InImmediates(k) = 1)
        /\ j.kind = "periodic" =>
              /\ immediates = <<>>
              /\ \A k \in ImmediateIndices : submits[k + 1] >= 1]_vars

\* the second of two run-immediately callbacks has just been submitted
C17_Witness ==
    /\ ev.op = "submit" /\ ev.index = 1
    /\ callables[1].immediately
    /\ submits[1] = 1
    /\ \E j \in jobs : j.index = 1 /\ j.kind = "immediate"


Entries(heap) == {heap[k] : k \in 1..Len(heap)}
SameEntries(h1, h2) ==
    \A e \in Entries(h1) \cup Entries(h2) : Count(h1, e) = Count(h2, e)

\* C18: a periodic submission of index i takes an entry (due, i) that is the
\* (due, index)-minimum of the Schedule and has due <= the time read in that
\* iteration, and removes exactly it; an iteration that finds the minimum not
\* yet due submits nothing and leaves the Schedule's entries as they were
C18_DueMinimumOnly ==
    [][/\ \A j \in jobs' \ jobs :
             j.kind = "periodic" =>
                \E e \in Entries(schedule) :
                   /\ e[2] = j.index
                   /\ e[1] <= j.submitted_at
                   /\ j.submitted_at = now
                   /\ \A o \in Entries(schedule) : LexLE(e, o)
                   /\ Len(schedule') = Len(schedule) - 1
                   /\ \A o \in Entries(schedule) :
                         Count(schedule', o)
                           = Count(schedule, o) - (IF o = e THEN 1 ELSE 0)
       /\ (pc = "inner" /\ pc' = "wait_due") =>
             /\ jobs' = jobs
             /\ SameEntries(schedule, schedule')
             /\ \A o \in Entries(schedule) : o[1] > now]_vars

\* of two entries due at the same time the one of the lower index has just
\* been submitted and the other is still in the Schedule
C18_Witness ==
    /\ ev.op = "submit"
    /\ \E j \in jobs :
          /\ j.kind = "periodic" /\ j.index = ev.index
          /\ schedule # <<>>
          /\ schedule[1][1] <= j.submitted_at
          /\ schedule[1][2] > j.index


\* ------------------------------- pushes into the Schedule of a pool worker
\* PeriodicWorker([], executor_factory=<a pool>) with the default strategy,
\* started with allow_empty and never stopped, given its callbacks by add(),
\* none of which raises, under fair scheduling
InitPush ==
    Init /\ callables = <<>> /\ strategy = "last_started"
         /\ executor = "async"

\* an invocation whose body does not raise, with any timestamps
PushOnDone(j) ==
    \E started_at \in j.submitted_at..now :
        \E finished_at \in started_at..now :
            RunAndDone(j, started_at, finished_at, FALSE, FALSE)

\* start() is called and stop() is not
NextPush ==
    \/ Tick
    \/ StartError
    \/ Start
    \/ LoopWhile
    \/ LoopSubmitImmediate
    \/ LoopNoImmediates
    \/ LoopAcquire
    \/ LoopWaitEmpty
    \/ LoopSubmitPeriodic
    \/ LoopWaitDue
    \/ LoopWakeEmpty
    \/ LoopWakeDue
    \/ \E j \in jobs : PushOnDone(j)
    \/ \E cb \in Descriptors, t \in 0..now : add(cb, t)

FairnessPush ==
    /\ WF_vars(Loop)
    /\ \A i \in 0..(MaxCallables - 1) :
          WF_vars(\E j \in jobs : j.index = i /\ PushOnDone(j))
    /\ WF_vars(Tick)

PushSpec == InitPush /\ [][NextPush]_vars /\ FairnessPush

LongSpacings == Spacings \cup {MAX_LOOP_IDLE, MAX_LOOP_IDLE + 1}

\* PeriodicWorker([(cb, None, None)], ...) for one such callback
InitIdle ==
    /\ now = 0
    /\ strategy \in StrategyNames
    /\ executor \in Executors
    /\ callables \in {<<cb>> :
                        cb \in [spacing : LongSpacings, immediately : BOOLEAN]}
    /\ metrics = [i \in 1..Len(callables) |-> _INITIAL_METRICS]
    /\ immediates = _build(strategy, callables, now).immediates
    /\ schedule = _build(strategy, callables, now).schedule
    /\ tombstone = FALSE
    /\ dead = FALSE
    /\ lock = "free"
    /\ pc = "idle"
    /\ notified = FALSE
    /\ deadline = 0
    /\ jobs = {}
    /\ submits = [i \in 1..Len(callables) |-> 0]
    /\ adders = [a \in AdderIds |-> [pc |-> "idle"]]
    /\ ev = [op |-> "init", actor |-> "init", unlocked |-> {}]

IdleSpec == InitIdle /\ [][NextFair]_vars

\* the loop enters a wait
WaitStep == pc' # pc /\ pc' \in {"wait_empty", "wait_due"}

\* C20: every wait the loop enters has a timeout in 1..MAX_LOOP_IDLE that,
\* with a non-empty Schedule, does not exceed (due time of the minimum entry
\* - now); and at every other position of _run the loop can take a step
C20_WaitBounded ==
    [][/\ WaitStep =>
             /\ ev'.op = "wait"
             /\ ev'.timeout > 0
             /\ ev'.timeout <= MAX_LOOP_IDLE
             /\ deadline' = now + ev'.timeout
             /\ \A e \in Entries(schedule') : ev'.timeout <= e[1] - now
       /\ pc' \in {"while", "if_imm", "with", "inner"} => (ENABLED Loop)']_vars

\* the loop waits for an entry due later than MAX_LOOP_IDLE from now, with
\* the timeout MAX_LOOP_IDLE
C20_Witness ==
    /\ pc = "wait_due"
    /\ deadline = now + MAX_LOOP_IDLE
    /\ schedule[1][1] > now + MAX_LOOP_IDLE

\* --------------------------------------- add() called from several threads
\* Each thread's add() taken line by line.  reset() is not called while an
\* add() is in progress.

\* add(cb), lines 480-486: validation passed, now = utils.now() read
AddCall(a, cb) ==
    /\ adders[a].pc = "idle"
    /\ adders' = [adders EXCEPT ![a] = [pc |-> "487", cb |-> cb, t |-> now]]
    /\ UNCHANGED <<now, strategy, executor, callables, metrics, immediates,
                   schedule, tombstone, dead, lock, pc, notified, deadline,
                   jobs, submits, ev>>

AdderMayEnterAlways(l) == TRUE
\* line 487, with self._waiter: entered when no thread holds the lock
AdderMayEnter(l) == l = "free"

AddAcquire(a) ==
    /\ adders[a].pc = "487"
    /\ AdderMayEnter(lock)
    /\ lock' = "add"
    /\ adders' = [adders EXCEPT ![a].pc = "488"]
    /\ UNCHANGED <<now, strategy, executor, callables, metrics, immediates,
                   schedule, tombstone, dead, pc, notified, deadline, jobs,
                   submits, ev>>

\* lines 488-489: cb_metrics = self._INITIAL_METRICS.copy(),
\* index = len(self._callables)
AddIndex(a) ==
    /\ adders[a].pc = "488"
    /\ adders' = [adders EXCEPT ![a] =
                    [pc |-> "490", cb |-> adders[a].cb, t |-> adders[a].t,
                     index |-> Len(callables)]]
    /\ UNCHANGED <<now, strategy, executor, callables, metrics, immediates,
                   schedule, tombstone, dead, lock, pc, notified, deadline,
                   jobs, submits, ev>>

\* line 490: self._callables.append((cb, cb_name, args, kwargs))
AddAppendCallable(a) ==
    /\ adders[a].pc = "490"
    /\ callables' = Append(callables, adders[a].cb)
    /\ adders' = [adders EXCEPT ![a].pc = "491"]
    /\ UNCHANGED <<now, strategy, executor, metrics, immediates, schedule,
                   tombstone, dead, lock, pc, notified, deadline, jobs,
                   submits, ev>>

\* line 491: self._metrics.append(cb_metrics)
AddAppendMetrics(a) ==
    /\ adders[a].pc = "491"
    /\ metrics' = Append(metrics, _INITIAL_METRICS)
    /\ submits' = Append(submits, 0)
    /\ adders' = [adders EXCEPT ![a].pc = "492"]
    /\ UNCHANGED <<now, strategy, executor, callables, immediates, schedule,
                   tombstone, dead, lock, pc, notified, deadline, jobs, ev>>

\* lines 492-496: the index goes to self._immediates or to self._schedule
AddQueue(a) ==
    /\ adders[a].pc = "492"
    /\ IF adders[a].cb.immediately
       THEN /\ immediates' = Append(immediates, adders[a].index)
            /\ UNCHANGED schedule
       ELSE /\ schedule' = SchedulePush(schedule,
                              InitialStrategy(strategy, adders[a].cb,
                                              adders[a].t),
                              adders[a].index)
            /\ UNCHANGED immediates
    /\ adders' = [adders EXCEPT ![a].pc = "497"]
    /\ UNCHANGED <<now, strategy, executor, callables, metrics, tombstone,
                   dead, lock, pc, notified, deadline, jobs, submits, ev>>

\* line 497: self._waiter.notify_all(), then the lock is released
AddNotify(a) ==
    /\ adders[a].pc = "497"
    /\ notified' = notify_all
    /\ lock' = "free"
    /\ adders' = [adders EXCEPT ![a].pc = "done"]
    /\ ev' = [op |-> "add", actor |-> "add", index |-> adders[a].index,
              unlocked |-> {}]
    /\ UNCHANGED <<now, strategy, executor, callables, metrics, immediates,
                   schedule, tombstone, dead, pc, deadline, jobs, submits>>

\* a worker constructed without callbacks, with the default strategy
InitAdders ==
    /\ Init
    /\ callables = <<>>
    /\ strategy = "last_started"

\* The add() calls overlap each other and the worker's start(), loop,
\* completion handlers and stop() within one reading of the clock, so no
\* Schedule entry becomes due (every next run is now + spacing or later).
NextAdders ==
    \/ StartError
    \/ Start
    \/ LoopWhile
    \/ LoopSubmitImmediate
    \/ LoopNoImmediates
    \/ LoopAcquire
    \/ LoopWaitEmpty
    \/ LoopBreak
    \/ LoopWaitDue
    \/ LoopWakeEmpty
    \/ LoopWakeDue
    \/ LoopFinally
    \/ \E j \in jobs : _on_done(j)
    \/ Stop
    \/ \E a \in AdderIds, cb \in Descriptors : AddCall(a, cb)
    \/ \E a \in AdderIds : AddAcquire(a)
    \/ \E a \in AdderIds : AddIndex(a)
    \/ \E a \in AdderIds : AddAppendCallable(a)
    \/ \E a \in AdderIds : AddAppendMetrics(a)
    \/ \E a \in AdderIds : AddQueue(a)
    \/ \E a \in AdderIds : AddNotify(a)

AddersSpec == InitAdders /\ [][NextAdders]_vars

\* indices held by the ImmediateSet, the Schedule and in-flight handlers
HeldIndices(imm, heap, js) ==
    {imm[k] : k \in 1..Len(imm)} \cup {heap[k][2] : k \in 1..Len(heap)}
        \cup {j.index : j \in js}

SoloSpec == InitFair /\ [][NextFair]_vars

\* completion handlers of callback i that have run since construction or
\* the last reset(): invocations submitted and no longer in flight
HandlersRun(i, subs, js) == subs[i + 1] - Cardinality({j \in js : j.index = i})

\* C22: for every callback, run count = failure count + success count =
\* number of its invocations whose completion handler has run since
\* construction or the last reset(); a step other than reset() decreases
\* no counter, no cumulative busy time and no cumulative queue-wait time,
\* and a completion handler adds exactly one run, as a failure or a success
C22_MetricsConsistent ==
    [][/\ \A i \in 0..(Len(callables') - 1) :
            LET m == metrics'[i + 1]
            IN  /\ m.runs = m.failures + m.successes
                /\ m.runs = HandlersRun(i, submits', jobs')
       /\ ~ResetStep =>
            \A i \in 1..Len(metrics) : \A k \in DOMAIN metrics[i] :
                metrics'[i][k] >= metrics[i][k]
       /\ ev'.actor = "handler" /\ OnDoneStep =>
            LET m == metrics[ev'.index + 1]
                n == metrics'[ev'.index + 1]
            IN  /\ n.runs = m.runs + 1
                /\ n.failures = m.failures + (IF ev'.failed THEN 1 ELSE 0)
                /\ n.successes = m.successes + (IF ev'.failed THEN 0 ELSE 1)
                /\ n.elapsed - m.elapsed
                       = ev'.finished_at - ev'.started_at
                /\ n.elapsed_waiting - m.elapsed_waiting
                       = ev'.started_at - ev'.submitted_at]_vars

\* a callback has failed once and succeeded once and has accumulated time,
\* and none of its invocations is in flight
C22_Witness ==
    \E i \in Indices :
        /\ metrics[i + 1].runs = 2
        /\ metrics[i + 1].failures = 1
        /\ metrics[i + 1].successes = 1
        /\ metrics[i + 1].elapsed + metrics[i + 1].elapsed_waiting > 0
        /\ Outstanding(i) = 0

\* ------------------------------------------------- start() after stop()
\* the thread running start() is at the loop's test or in start()'s finally
\* while stop is requested
StopRequestedRun == tombstone /\ pc \in {"while", "finally"}

\* the step passes no callback to executor.submit
NothingSubmitted == \A i \in 1..Len(submits) : submits'[i] = submits[i]

\* C23: only reset() clears the stop request.  A start() invoked while stop
\* is requested goes to the loop's test with the request still set and
\* nothing submitted; from there until start() returns nothing is
\* submitted, no pending immediate is consumed, the request stays set, and
\* start() returns with the loop-exited flag set.
C23_StopSticky ==
    [][/\ (tombstone /\ ~tombstone') => ResetStep
       /\ (pc = "idle" /\ pc' # "idle" /\ tombstone)
            => /\ StopRequestedRun'
               /\ pc' = "while"
               /\ jobs' = {}
               /\ NothingSubmitted
       /\ StopRequestedRun
            => /\ NothingSubmitted
               /\ jobs' \subseteq jobs
               /\ Len(immediates') >= Len(immediates)
               /\ \A k \in 1..Len(immediates) :
                      immediates'[k] = immediates[k]
               /\ \/ StopRequestedRun'
                  \/ pc' = "idle" /\ dead' /\ tombstone']_vars

\* start() has returned with the loop-exited flag set while stop is
\* requested, an immediate callback is still pending and nothing has been
\* submitted since construction or the last reset()
C23_Witness ==
    /\ pc = "idle" /\ dead /\ tombstone
    /\ ev.op = "finally"
    /\ immediates # <<>>
    /\ \A i \in Indices : submits[i + 1] = 0 /\ metrics[i + 1].runs = 0

\* ------------------------------------- two callbacks on a controlled clock
\* PeriodicWorker([(A, None, None), (B, None, None)]) built at time 0 with
\* A = periodic(1, run_immediately=True)(f), B = periodic(2)(g), the default
\* last_started strategy and the default SynchronousExecutor.
CallbackA == [spacing |-> 1, immediately |-> TRUE]
CallbackB == [spacing |-> 2, immediately |-> FALSE]

InitScenario ==
    /\ now = 0
    /\ strategy = "last_started"
    /\ executor = "sync"
    /\ callables = <<CallbackA, CallbackB>>
    /\ metrics = [i \in 1..Len(callables) |-> _INITIAL_METRICS]
    /\ immediates = _build(strategy, callables, now).immediates
    /\ schedule = _build(strategy, callables, now).schedule
    /\ tombstone = FALSE
    /\ dead = FALSE
    /\ lock = "free"
    /\ pc = "idle"
    /\ notified = FALSE
    /\ deadline = 0
    /\ jobs = {}
    /\ submits = [i \in 1..Len(callables) |-> 0]
    /\ adders = [a \in AdderIds |-> [pc |-> "idle"]]
    /\ ev = [op |-> "init", actor |-> "init", unlocked |-> {}]

\* The clock is advanced only by the loop's waits: utils.now() moves while
\* the loop is blocked in self._waiter.wait(timeout), up to the timeout.
ScenarioTick ==
    /\ Waiting
    /\ now < deadline
    /\ now < MaxScenarioTime
    /\ now' = now + 1
    /\ UNCHANGED <<strategy, executor, adders, callables, metrics, immediates,
                   schedule, tombstone, dead, lock, pc, notified, deadline,
                   jobs, submits, ev>>

\* _run_callback and _on_done of a callback that takes no time: it starts
\* and finishes at the time it was submitted; its body raises or not
ScenarioOnDone(j) ==
    \E failed \in BOOLEAN :
        RunAndDone(j, j.submitted_at, j.submitted_at, failed, FALSE)

NextScenario ==
    \/ ScenarioTick
    \/ Start
    \/ LoopWhile
    \/ LoopSubmitImmediate
    \/ LoopNoImmediates
    \/ LoopAcquire
    \/ LoopSubmitPeriodic
    \/ LoopWaitDue
    \/ LoopWakeDue
    \/ \E j \in jobs : ScenarioOnDone(j)

ScenarioSpec == InitScenario /\ [][NextScenario]_vars

\* the loop is blocked between time 2 and the next due time
C12_After2 == now = 2 /\ pc = "wait_due" /\ now < deadline

\* C12: in the two-callback scenario A has run 3 times and B once when the
\* loop rests after time 2; A's k-th dispatch is at time k - 1, B's first at
\* time 2, and at time 2 A is dispatched before B
C12_Scenario ==
    /\ C12_After2 =>
          /\ metrics[1].runs = 3 /\ metrics[2].runs = 1
          /\ submits = <<3, 1>>
    /\ (ev.op = "submit" /\ ev.index = 0) => submits[1] = now + 1
    /\ (ev.op = "submit" /\ ev.index = 1 /\ submits[2] = 1) =>
          (now = 2 /\ submits[1] = 3)

\* the loop rests after time 2 and both callbacks have failed at least once
C12_Witness ==
    /\ C12_After2
    /\ metrics[1].failures > 0
    /\ metrics[2].failures > 0

====
